---- MODULE Spec2Model ----
(***************************************************************************)
(* TransactionClassifier (src/fluffy_octo_spoon/transaction_classifier.py) *)
(* as a state machine.                                                     *)
(*                                                                         *)
(* Representation.  A line of the input file is the sequence of its        *)
(* ';'-separated tokens; a token is a TLA+ string.  Where the code works   *)
(* on the characters of a string (lower(), `in`, replace(), Decimal()) the *)
(* string is a sequence of one-character strings; Chars gives the          *)
(* characters of the tokens the input rows are built from.  A Decimal is   *)
(* the record [nan, neg, coef, exp] with value (-1)^neg * coef * 10^-exp,  *)
(* as in Python's decimal module.  A Python dict is the record             *)
(* [keys, vals] of two sequences of equal length, in insertion order.      *)
(***************************************************************************)
EXTENDS Integers, Sequences, FiniteSets, TLC

VARIABLES pc, categories, content, output_before, output, header_index,
          existing_columns, cleaned_content, reader_pos, transactions,
          generated, written, raised, call, ret

vars == <<pc, categories, content, output_before, output, header_index,
          existing_columns, cleaned_content, reader_pos, transactions,
          generated, written, raised, call, ret>>

(***************************************************************************)
(* Bounds of the input sets.                                               *)
(***************************************************************************)
MaxDescLen == 2
MaxCategories == 2
MaxAmountLen == 3
MaxLines == 3
MaxRows == 2

(***************************************************************************)
(* Python values                                                           *)
(***************************************************************************)
\* Python's None; no token of any input is this string.
None == "<None>"

\* bool(x) of an Optional[str]
Truthy(x) == x # None /\ x # ""

Min(S) == CHOOSE x \in S : \A y \in S : x <= y

RECURSIVE Pow10(_)
Pow10(n) == IF n = 0 THEN 1 ELSE 10 * Pow10(n - 1)

\* the sequences over S of length at most n
SeqsUpTo(S, n) == UNION {[1..k -> S] : k \in 0..n}

(***************************************************************************)
(* str.lower(), `in`, str.replace(), " ".join()                            *)
(***************************************************************************)
LowerChar(c) ==
    CASE c = "A" -> "a"
      [] c = "B" -> "b"
      [] OTHER -> c

\* str.lower()
Lower(s) == [i \in 1..Len(s) |-> LowerChar(s[i])]

\* k in d  (substring test of two str)
IsSubstring(k, d) ==
    \E i \in 0..(Len(d) - Len(k)) : SubSeq(d, i + 1, i + Len(k)) = k

\* s.replace(c, "")
RECURSIVE Remove(_, _)
Remove(s, c) ==
    IF s = <<>> THEN <<>>
    ELSE IF Head(s) = c THEN Remove(Tail(s), c)
    ELSE <<Head(s)>> \o Remove(Tail(s), c)

\* s.replace(c, d) for one-character c and d
Replace(s, c, d) == [i \in 1..Len(s) |-> IF s[i] = c THEN d ELSE s[i]]

\* " ".join(parts)
RECURSIVE Join(_)
Join(parts) ==
    IF parts = <<>> THEN <<>>
    ELSE IF Len(parts) = 1 THEN parts[1]
    ELSE parts[1] \o <<" ">> \o Join(Tail(parts))

(***************************************************************************)
(* decimal.Decimal                                                         *)
(***************************************************************************)
Digits == {"0", "1", "2", "3", "4", "5", "6", "7", "8", "9"}

DigitVal(c) ==
    CASE c = "0" -> 0 [] c = "1" -> 1 [] c = "2" -> 2 [] c = "3" -> 3
      [] c = "4" -> 4 [] c = "5" -> 5 [] c = "6" -> 6 [] c = "7" -> 7
      [] c = "8" -> 8 [] c = "9" -> 9

RECURSIVE DigitsVal(_)
DigitsVal(s) ==
    IF s = <<>> THEN 0
    ELSE 10 * DigitsVal(SubSeq(s, 1, Len(s) - 1)) + DigitVal(s[Len(s)])

AllDigits(s) == \A i \in 1..Len(s) : s[i] \in Digits

\* Decimal("0")
Zero == [nan |-> FALSE, neg |-> FALSE, coef |-> 0, exp |-> 0]

\* Decimal(n) of the int n
DecimalOfInt(n) ==
    [nan |-> FALSE, neg |-> n < 0, coef |-> IF n < 0 THEN -n ELSE n, exp |-> 0]

HasSign(s) == Len(s) > 0 /\ s[1] \in {"-", "+"}
Unsigned(s) == IF HasSign(s) THEN Tail(s) ELSE s
DotsOf(s) == {i \in 1..Len(s) : s[i] = "."}
IntPart(s) == IF DotsOf(s) = {} THEN s ELSE SubSeq(s, 1, Min(DotsOf(s)) - 1)
FracPart(s) == IF DotsOf(s) = {} THEN <<>> ELSE SubSeq(s, Min(DotsOf(s)) + 1, Len(s))

\* sign? digits* (. digits*)? with at least one digit
IsNumberLiteral(s) ==
    LET u == Unsigned(s) IN
    /\ Cardinality(DotsOf(u)) <= 1
    /\ AllDigits(IntPart(u))
    /\ AllDigits(FracPart(u))
    /\ Len(IntPart(u)) + Len(FracPart(u)) >= 1

\* sign? nan digits*
IsNaNLiteral(s) ==
    LET u == Unsigned(s) IN
    /\ Len(u) >= 3
    /\ SubSeq(u, 1, 3) = <<"n", "a", "n">>
    /\ AllDigits(SubSeq(u, 4, Len(u)))

\* Decimal(s) does not raise InvalidOperation.  Of the literals Decimal
\* accepts, the ones over the characters of the input sets: no exponent,
\* no Infinity, no blanks, no underscores.
IsDecimalLiteral(s) == IsNumberLiteral(s) \/ IsNaNLiteral(s)

\* Decimal(s), for a literal s
DecimalOf(s) ==
    LET u == Unsigned(s)
        neg == HasSign(s) /\ s[1] = "-"
    IN IF IsNaNLiteral(s)
       THEN [nan |-> TRUE, neg |-> neg, coef |-> 0, exp |-> 0]
       ELSE [nan |-> FALSE, neg |-> neg,
             coef |-> DigitsVal(IntPart(u) \o FracPart(u)),
             exp |-> Len(FracPart(u))]

\* abs(d)
DecAbs(d) == [d EXCEPT !.neg = FALSE]

\* -d : the sign is flipped, and -0 is 0
DecNeg(d) ==
    IF d.nan THEN d
    ELSE IF d.coef = 0 THEN [d EXCEPT !.neg = FALSE]
    ELSE [d EXCEPT !.neg = ~d.neg]

\* d > n for an int n >= 0 and a number d
DecGreater(d, n) == ~d.neg /\ d.coef > n * Pow10(d.exp)

\* d < 0 for a number d (-0 is not less than 0)
DecNegative(d) == d.neg /\ d.coef > 0

(***************************************************************************)
(* _parse_amount                                                           *)
(***************************************************************************)
\* s.replace("'", "").replace(",", ".")
Normalize(s) == Replace(Remove(s, "'"), ",", ".")

\* _parse_amount(debit, credit, transaction_id); the except branch returns
\* Decimal("0") when Decimal() raises.
ParseAmount(debit, credit) ==
    IF debit # <<>>
    THEN IF IsDecimalLiteral(Normalize(debit))
         THEN DecNeg(DecAbs(DecimalOf(Normalize(debit))))
         ELSE Zero
    ELSE IF credit # <<>>
    THEN IF IsDecimalLiteral(Normalize(credit))
         THEN DecimalOf(Normalize(credit))
         ELSE Zero
    ELSE Zero

(***************************************************************************)
(* classify_transaction                                                    *)
(***************************************************************************)
SalaryThreshold == 3000
LargeExpenseThreshold == 1000

\* what classify_transaction yields when a comparison of a NaN amount raises
\* decimal.InvalidOperation
InvalidOperation == "<InvalidOperation>"

\* any(keyword.lower() in description for keyword in keywords)
AnyKeyword(keywords, description) ==
    \E j \in 1..Len(keywords) : IsSubstring(Lower(keywords[j]), description)

\* for category, keywords in self.categories.items(): if any(...): break
\* from item i on; None when the loop ends without a match.
RECURSIVE MatchFrom(_, _, _)
MatchFrom(cats, description, i) ==
    IF i > Len(cats) THEN None
    ELSE IF AnyKeyword(cats[i].keywords, description) THEN cats[i].category
    ELSE MatchFrom(cats, description, i + 1)

KeywordMatch(cats, description) == MatchFrom(cats, Lower(description), 1)

\* the amount-based classification with the thresholds included
AmountFallbackInclusive(amount) ==
    IF amount.nan THEN InvalidOperation
    ELSE IF DecGreater(amount, 0)
    THEN IF DecGreater(amount, SalaryThreshold - 1)
         THEN "Gehalt" ELSE "Sonstiges"
    ELSE IF DecNegative(amount)
    THEN IF DecGreater(DecAbs(amount), LargeExpenseThreshold - 1)
         THEN "Grosse Ausgaben" ELSE "Sonstiges"
    ELSE "Sonstiges"

\* the amount-based classification with the sentinel of the docstring
AmountFallbackUnknown(amount) ==
    IF amount.nan THEN InvalidOperation
    ELSE IF DecGreater(amount, SalaryThreshold) THEN "Gehalt"
    ELSE IF DecNegative(amount) /\ DecGreater(DecAbs(amount), LargeExpenseThreshold)
    THEN "Grosse Ausgaben"
    ELSE "Unknown"

\* the amount-based classification, lines 185-196
AmountFallback(amount) ==
    IF amount.nan THEN InvalidOperation
    ELSE IF DecGreater(amount, 0)
    THEN IF DecGreater(amount, SalaryThreshold) THEN "Gehalt" ELSE "Sonstiges"
    ELSE IF DecNegative(amount)
    THEN IF DecGreater(DecAbs(amount), LargeExpenseThreshold)
         THEN "Grosse Ausgaben" ELSE "Sonstiges"
    ELSE "Sonstiges"

\* classify_transaction with the conflict of line 169 resolved the other way
ClassifyKeepExisting(cats, description, amount, existing_category) ==
    LET new_category == KeywordMatch(cats, description) IN
    IF Truthy(existing_category) THEN existing_category
    ELSE IF new_category # None THEN new_category
    ELSE AmountFallback(amount)

\* classify_transaction with the amount thresholds tried before the
\* pre-existing category
ClassifyAmountFirst(cats, description, amount, existing_category) ==
    LET new_category == KeywordMatch(cats, description) IN
    IF new_category # None THEN new_category
    ELSE IF AmountFallback(amount) \in {"Gehalt", "Grosse Ausgaben"}
    THEN AmountFallback(amount)
    ELSE IF Truthy(existing_category) THEN existing_category
    ELSE AmountFallback(amount)

\* lines 159-196
ClassifyTransaction(cats, description, amount, existing_category) ==
    LET new_category == KeywordMatch(cats, description) IN
    IF Truthy(existing_category)
    THEN IF Truthy(new_category) /\ new_category # existing_category
         THEN new_category
         ELSE existing_category
    ELSE IF new_category # None THEN new_category
    ELSE AmountFallback(amount)

(***************************************************************************)
(* The state of the variables a specification does not use.                *)
(***************************************************************************)
\* the output destination when no file exists there: no file has this line
NoFile == <<<<"<no file>">>>>

NoCall == [fn |-> "none"]

RunIdle ==
    /\ content = <<>>
    /\ output_before = NoFile
    /\ output = NoFile
    /\ header_index = -1
    /\ existing_columns = <<>>
    /\ cleaned_content = <<>>
    /\ reader_pos = 0
    /\ transactions = <<>>
    /\ generated = 0
    /\ written = 0
    /\ raised = None

RunVars == <<content, output_before, output, header_index, existing_columns,
             cleaned_content, reader_pos, transactions, generated, written,
             raised>>

(***************************************************************************)
(* Category mappings: what yaml.safe_load gives __init__, an ordered dict  *)
(* from category name to list of keywords.  Category names are not empty   *)
(* (data model, CategoryMapping).                                          *)
(***************************************************************************)
CategoryNames == {"Essen", "Miete", "Gehalt"}

DescChars == {"a", "A", "b"}

Keywords == {<<>>, <<"a">>, <<"B">>, <<"a", "b">>}

KeywordLists == {<<>>} \cup {<<k>> : k \in Keywords \ {<<>>}}
                  \cup {<<<<"B">>, <<"a">>>>, <<<<>>>>}

Mappings ==
    {m \in SeqsUpTo([category : CategoryNames, keywords : KeywordLists],
                    MaxCategories) :
        \A i, j \in 1..Len(m) : m[i].category = m[j].category => i = j}

Descriptions == SeqsUpTo(DescChars, MaxDescLen)

(***************************************************************************)
(* SpecClassify: classify_transaction over mappings, descriptions and      *)
(* pre-existing categories.                                                *)
(***************************************************************************)
ClassifyAmounts == {DecimalOfInt(n) : n \in {0, 5000, -2000}}

ExistingCategories == {None, "", "Essen", "Alt"}

InitClassify ==
    /\ pc = "classify"
    /\ categories \in Mappings
    /\ call = NoCall
    /\ ret = None
    /\ RunIdle

Classify ==
    /\ pc = "classify"
    /\ \E d \in Descriptions, a \in ClassifyAmounts, e \in ExistingCategories :
         /\ call' = [fn |-> "classify_transaction", description |-> d,
                     amount |-> a, existing_category |-> e]
         /\ ret' = ClassifyTransaction(categories, d, a, e)
    /\ pc' = "classified"
    /\ UNCHANGED <<categories, RunVars>>

NextClassify == Classify

SpecClassify == InitClassify /\ [][NextClassify]_vars

\* keyword k occurs in description d when case is ignored
OccursIgnoringCase(k, d) ==
    \E off \in 0..(Len(d) - Len(k)) :
        \A p \in 1..Len(k) : LowerChar(k[p]) = LowerChar(d[off + p])

\* item i of the mapping has a keyword that occurs in d when case is ignored
CategoryMatches(i, d) ==
    \E j \in 1..Len(categories[i].keywords) :
        OccursIgnoringCase(categories[i].keywords[j], d)

\* C1: when C is the first category of the mapping, in its declared order,
\* that has a keyword which is a case-insensitive substring of the
\* description, classify_transaction returns C, for every amount and with or
\* without a pre-existing category.
C1_FirstMatchingCategoryWins ==
    pc = "classified" =>
        \A i \in 1..Len(categories) :
            (/\ CategoryMatches(i, call.description)
             /\ \A j \in 1..(i - 1) : ~CategoryMatches(j, call.description))
            => ret = categories[i].category

\* C1 witness: two categories both match, the match needs case folding, and
\* a differing pre-existing category is overridden by the first.
C1_Witness ==
    /\ pc = "classified"
    /\ Len(categories) = 2
    /\ CategoryMatches(1, call.description)
    /\ CategoryMatches(2, call.description)
    /\ ~AnyKeyword(categories[1].keywords, call.description)
    /\ Truthy(call.existing_category)
    /\ call.existing_category = categories[2].category
    /\ ret = categories[1].category

(***************************************************************************)
(* SpecAmount: classify_transaction without a keyword match and without a  *)
(* pre-existing category, over amounts around the thresholds.              *)
(***************************************************************************)
\* Decimal of coef * 10^-exp, negated when neg
Dec(neg, coef, exp) == [nan |-> FALSE, neg |-> neg, coef |-> coef, exp |-> exp]

ThresholdAmounts ==
    {DecimalOfInt(n) : n \in {-5000, -1001, -1000, -999, -1, 0, 1, 1001,
                              2999, 3000, 3001, 9000}}
    \cup {Dec(FALSE, 30000, 1), Dec(FALSE, 30001, 1), Dec(FALSE, 299999, 2),
          Dec(TRUE, 10000, 1), Dec(TRUE, 100001, 2), Dec(TRUE, 9999, 1),
          Dec(TRUE, 0, 0), Dec(FALSE, 0, 2)}

AmountMappings ==
    {<<>>,
     <<[category |-> "Essen", keywords |-> <<<<"a">>>>]>>,
     <<[category |-> "Essen", keywords |-> <<>>]>>,
     <<[category |-> "Miete", keywords |-> <<<<"B">>, <<"a", "b">>>>]>>}

InitAmount ==
    /\ pc = "classify"
    /\ categories \in AmountMappings
    /\ call = NoCall
    /\ ret = None
    /\ RunIdle

ClassifyByAmount ==
    /\ pc = "classify"
    /\ \E d \in Descriptions, a \in ThresholdAmounts, e \in {None, ""} :
         /\ call' = [fn |-> "classify_transaction", description |-> d,
                     amount |-> a, existing_category |-> e]
         /\ ret' = ClassifyTransaction(categories, d, a, e)
    /\ pc' = "classified"
    /\ UNCHANGED <<categories, RunVars>>

NextAmount == ClassifyByAmount

SpecAmount == InitAmount /\ [][NextAmount]_vars

\* no item of the mapping matches the description
NoKeywordMatch(d) == \A i \in 1..Len(categories) : ~CategoryMatches(i, d)

\* a.coef * 10^-a.exp compared with the int n >= 0
MagnitudeAbove(a, n) == a.coef > n * Pow10(a.exp)

AmountChars == {"0", "1", "'", ",", "-", "x"}

AmountStrings == SeqsUpTo(AmountChars, MaxAmountLen)

InitParse ==
    /\ pc = "parse"
    /\ categories = <<>>
    /\ call = NoCall
    /\ ret = None
    /\ RunIdle

ParseAmountCall ==
    /\ pc = "parse"
    /\ \E debit \in AmountStrings, credit \in AmountStrings :
         /\ call' = [fn |-> "_parse_amount", debit |-> debit, credit |-> credit]
         /\ ret' = ParseAmount(debit, credit)
    /\ pc' = "parsed"
    /\ UNCHANGED <<categories, RunVars>>

NextParse == ParseAmountCall

SpecParse == InitParse /\ [][NextParse]_vars

\* the number a has the magnitude of the number b
SameMagnitude(a, b) == a.coef * Pow10(b.exp) = b.coef * Pow10(a.exp)

\* C4: a non-empty parsable debit yields minus the absolute value of its
\* normalized number (never positive, whatever the credit); an empty debit
\* with a non-empty parsable credit yields that number with positive sign
\* (never negative); both empty yields zero; a malformed numeral in the field
\* that is used yields zero.
C4_ParseAmountContract ==
    pc = "parsed" =>
        LET d == call.debit
            c == call.credit
            used == IF d # <<>> THEN Normalize(d) ELSE Normalize(c)
        IN /\ (d # <<>> /\ IsNumberLiteral(used)) =>
                /\ SameMagnitude(ret, DecimalOf(used))
                /\ ret.neg \/ ret.coef = 0
           /\ (d = <<>> /\ c # <<>> /\ IsNumberLiteral(used)) =>
                /\ SameMagnitude(ret, DecimalOf(used))
                /\ ~ret.neg \/ ret.coef = 0
           /\ (d = <<>> /\ c = <<>>) => ret = Zero
           /\ ((d # <<>> \/ c # <<>>) /\ ~IsDecimalLiteral(used)) => ret = Zero

(***************************************************************************)
(* _clean_csv_content                                                      *)
(***************************************************************************)
\* "Waehrung" stands for the fifth name, which has an umlaut in the source.
EXPECTED_COLUMNS ==
    <<"Abschlussdatum", "Abschlusszeit", "Buchungsdatum", "Valutadatum",
      "Waehrung", "Belastung", "Gutschrift", "Einzelbetrag", "Saldo",
      "Transaktions-Nr.", "Beschreibung1", "Beschreibung2", "Beschreibung3",
      "Fussnoten">>

Range(f) == {f[i] : i \in DOMAIN f}

\* sum(1 for col in columns if col in self.EXPECTED_COLUMNS)
Matches(columns) ==
    Cardinality({i \in 1..Len(columns) : columns[i] \in Range(EXPECTED_COLUMNS)})

\* the threshold test with 70% for 80%
IsHeaderLoose(columns) == 10 * Matches(columns) >= 7 * Len(EXPECTED_COLUMNS)

\* matches >= len(self.EXPECTED_COLUMNS) * 0.8
IsHeader(columns) == 10 * Matches(columns) >= 8 * Len(EXPECTED_COLUMNS)

\* for i, line in enumerate(content): ... break, from line i on; the number
\* of the header line, or 0 when the loop ends without one (header_index is
\* that number less one).  columns = line.strip().split(";") are the tokens
\* of the line.
RECURSIVE FindHeader(_, _)
FindHeader(lines, i) ==
    IF i > Len(lines) THEN 0
    ELSE IF IsHeader(lines[i]) THEN i
    ELSE FindHeader(lines, i + 1)

\* Lines 206-221 of process_transactions: _clean_csv_content, and the
\* DictReader over the cleaned content, whose field names are its first
\* line.  The ValueError of line 82 goes to the handler of lines 262-264,
\* which logs and raises it again.
CleanCsvContent ==
    /\ pc = "scan"
    /\ LET h == FindHeader(content, 1) IN
       IF h = 0
       THEN /\ raised' = "ValueError"
            /\ pc' = "failed"
            /\ UNCHANGED <<header_index, existing_columns, cleaned_content,
                           reader_pos>>
       ELSE /\ header_index' = h - 1
            /\ existing_columns' = content[h]
            /\ cleaned_content' = SubSeq(content, h, Len(content))
            /\ reader_pos' = 1
            /\ pc' = "read"
            /\ UNCHANGED raised
    /\ UNCHANGED <<categories, content, output_before, output, transactions,
                   generated, written, call, ret>>

(***************************************************************************)
(* SpecScan: _clean_csv_content over files of a few lines.                 *)
(***************************************************************************)
Prefix(k) == SubSeq(EXPECTED_COLUMNS, 1, k)

ScanLines ==
    {<<"Kontonummer", "CH00">>,
     <<"">>,
     Prefix(11),
     Prefix(11) \o <<"saldo", "fussnoten", "Betrag">>,
     Prefix(12),
     EXPECTED_COLUMNS,
     EXPECTED_COLUMNS \o <<"ID", "Kategorie">>,
     <<"ID">> \o Prefix(13),
     [i \in 1..12 |-> "Saldo"],
     [i \in 1..14 |-> IF i = 11 THEN "Miete" ELSE ""]}

InitScan ==
    /\ pc = "scan"
    /\ categories = <<>>
    /\ content \in SeqsUpTo(ScanLines, MaxLines)
    /\ output_before = NoFile
    /\ output = NoFile
    /\ header_index = -1
    /\ existing_columns = <<>>
    /\ cleaned_content = <<>>
    /\ reader_pos = 0
    /\ transactions = <<>>
    /\ generated = 0
    /\ written = 0
    /\ raised = None
    /\ call = NoCall
    /\ ret = None

NextScan == CleanCsvContent

SpecScan == InitScan /\ [][NextScan]_vars

\* the number of tokens of the line that equal an expected column name
ExpectedTokens(line) ==
    Cardinality({i \in 1..Len(line) :
                    \E k \in 1..Len(EXPECTED_COLUMNS) : line[i] = EXPECTED_COLUMNS[k]})

\* the line reaches 80% of the 14 expected columns
ReachesThreshold(line) == 5 * ExpectedTokens(line) >= 4 * 14

\* C7: the header row is the first line whose count of tokens equal to an
\* expected column name is at least 80% of the 14 expected columns; the
\* content returned starts at that line and keeps every later line in order,
\* the columns returned are that line's tokens; when no line reaches the
\* threshold the scan ends in the header-not-found error.
C7_FirstLineAtThresholdIsHeader ==
    pc # "scan" =>
        LET reaching == {i \in 1..Len(content) : ReachesThreshold(content[i])} IN
        IF reaching = {}
        THEN pc = "failed" /\ raised = "ValueError" /\ cleaned_content = <<>>
        ELSE LET h == CHOOSE i \in reaching : \A j \in reaching : i <= j IN
             /\ pc = "read"
             /\ raised = None
             /\ header_index = h - 1
             /\ existing_columns = content[h]
             /\ Len(cleaned_content) = Len(content) - h + 1
             /\ \A k \in 1..Len(cleaned_content) :
                    cleaned_content[k] = content[h + k - 1]

\* C7 witness: the header is the second line, after a line with 11 expected
\* columns, and a second line reaching the threshold follows it.
C7_Witness ==
    /\ pc = "read"
    /\ Len(content) = 3
    /\ ExpectedTokens(content[1]) = 11
    /\ header_index = 1
    /\ ReachesThreshold(content[3])
    /\ Len(cleaned_content) = 2

(***************************************************************************)
(* dict                                                                    *)
(***************************************************************************)
Has(d, k) == \E i \in 1..Len(d.keys) : d.keys[i] = k

IndexOf(d, k) == CHOOSE i \in 1..Len(d.keys) : d.keys[i] = k

\* d.get(k, default)
Get(d, k, default) == IF Has(d, k) THEN d.vals[IndexOf(d, k)] ELSE default

\* d[k] = v
Set(d, k, v) ==
    IF Has(d, k) THEN [d EXCEPT !.vals[IndexOf(d, k)] = v]
    ELSE [keys |-> Append(d.keys, k), vals |-> Append(d.vals, v)]

(***************************************************************************)
(* csv.DictReader, csv.DictWriter                                          *)
(***************************************************************************)
\* str(extras) of the list DictReader stores under the key None: the only
\* use process_transactions makes of that list is to write it.
ListRepr(extras) == IF extras = <<"x">> THEN "['x']" ELSE "[...]"

\* The dict DictReader yields for a line: the field names with the line's
\* values, None (restval) for the values a short line lacks and the key None
\* (restkey) with the list of the values a long line has in excess.
DictReaderRow(fieldnames, line) ==
    LET base == [keys |-> fieldnames,
                 vals |-> [i \in 1..Len(fieldnames) |->
                              IF i <= Len(line) THEN line[i] ELSE None]]
    IN IF Len(line) > Len(fieldnames)
       THEN Set(base, None, ListRepr(SubSeq(line, Len(fieldnames) + 1, Len(line))))
       ELSE base

\* DictReader skips the rows csv.reader yields as []: the empty lines.  The
\* number of the next line at or after pos that is a record, 0 when the
\* reader is exhausted.
RECURSIVE NextRecordLine(_, _)
NextRecordLine(lines, pos) ==
    IF pos > Len(lines) THEN 0
    ELSE IF lines[pos] = <<"">> THEN NextRecordLine(lines, pos + 1)
    ELSE pos

\* what csv.writer writes for a value: None is written as the empty string
Written(v) == IF v = None THEN "" ELSE v

\* DictWriter.writeheader(): the field names as a line
HeaderLine(fieldnames) == [i \in 1..Len(fieldnames) |-> Written(fieldnames[i])]

\* DictWriter._dict_to_list: the keys of the row that are no field names
\* (extrasaction is "raise")
WrongFields(fieldnames, row) == Range(row.keys) \ Range(fieldnames)

\* DictWriter._dict_to_list: the line of a row, absent keys written as ""
RowLine(fieldnames, row) ==
    [i \in 1..Len(fieldnames) |-> Written(Get(row, fieldnames[i], ""))]

(***************************************************************************)
(* process_transactions                                                    *)
(***************************************************************************)
\* The characters of the tokens the rows of the input files are made of.
Chars(t) ==
    CASE t = "" -> <<>>
      [] t = "Ab" -> <<"A", "b">>
      [] t = "b" -> <<"b">>
      [] t = "x" -> <<"x">>
      [] t = "nan" -> <<"n", "a", "n">>
      [] t = "5000" -> <<"5", "0", "0", "0">>
      [] t = "1'500,50" -> <<"1", "'", "5", "0", "0", ",", "5", "0">>

\* the characters of an Optional[str] that is tested for truth before use
FieldChars(v) == IF Truthy(v) THEN Chars(v) ELSE <<>>

\* an identifier generator that repeats itself
GenerateRepeatedId(n) == "uuid-0"

\* str(uuid.uuid4()): the n-th identifier of the run.  uuid4 is taken at its
\* contract: it does not repeat, and is no token of the input.
GenerateTransactionId(n) == "uuid-" \o ToString(n)

\* list(filter(None, parts))
RECURSIVE FilterTruthy(_)
FilterTruthy(parts) ==
    IF parts = <<>> THEN <<>>
    ELSE IF Truthy(Head(parts)) THEN <<Head(parts)>> \o FilterTruthy(Tail(parts))
    ELSE FilterTruthy(Tail(parts))

\* lines 230-234
CombinedDescription(row) ==
    LET parts == FilterTruthy(<<Get(row, "Beschreibung1", ""),
                                Get(row, "Beschreibung2", ""),
                                Get(row, "Beschreibung3", "")>>)
    IN Join([i \in 1..Len(parts) |-> Chars(parts[i])])

has_id_column == "ID" \in Range(existing_columns)
has_category_column == "Kategorie" \in Range(existing_columns)

\* line 225 with a new identifier for every row
AlwaysNewId(row, n) == GenerateTransactionId(n)

\* line 225: row.get("ID", self._generate_transaction_id()), n the number of
\* the call of _generate_transaction_id
TransactionId(row, n) == Get(row, "ID", GenerateTransactionId(n))

\* One pass of the loop of lines 223-246 over the next row of the reader.  A
\* decimal.InvalidOperation of classify_transaction leaves the loop for the
\* handler of lines 262-264.
ProcessRow ==
    /\ pc = "read"
    /\ LET n == NextRecordLine(cleaned_content, reader_pos + 1) IN
       /\ n # 0
       /\ LET row == DictReaderRow(cleaned_content[1], cleaned_content[n])
              transaction_id == TransactionId(row, generated + 1)
              combined_description == CombinedDescription(row)
              amount == ParseAmount(FieldChars(Get(row, "Belastung", "")),
                                    FieldChars(Get(row, "Gutschrift", "")))
              existing_category ==
                  IF has_category_column THEN Get(row, "Kategorie", None)
                  ELSE None
              category == ClassifyTransaction(categories, combined_description,
                                              amount, existing_category)
          IN /\ reader_pos' = n
             /\ generated' = generated + 1
             /\ IF category = InvalidOperation
                THEN /\ raised' = "InvalidOperation"
                     /\ pc' = "failed"
                     /\ UNCHANGED transactions
                ELSE /\ transactions' =
                          Append(transactions,
                                 Set(Set(row, "ID", transaction_id),
                                     "Kategorie", category))
                     /\ UNCHANGED <<pc, raised>>
    /\ UNCHANGED <<categories, content, output_before, output, header_index,
                   existing_columns, cleaned_content, written, call, ret>>

\* the field names of the writer, line 250
Fieldnames == transactions[1].keys

\* lines 259-260 with the output file opened before the test of line 249
NoTransactionsCreatesFile ==
    /\ pc = "read"
    /\ NextRecordLine(cleaned_content, reader_pos + 1) = 0
    /\ transactions = <<>>
    /\ output' = <<>>
    /\ pc' = "done"
    /\ UNCHANGED <<categories, content, output_before, header_index,
                   existing_columns, cleaned_content, reader_pos, transactions,
                   generated, written, raised, call, ret>>

\* Lines 259-260: the reader is exhausted and no row was read.
NoTransactions ==
    /\ pc = "read"
    /\ NextRecordLine(cleaned_content, reader_pos + 1) = 0
    /\ transactions = <<>>
    /\ pc' = "done"
    /\ UNCHANGED <<categories, content, output_before, output, header_index,
                   existing_columns, cleaned_content, reader_pos, transactions,
                   generated, written, raised, call, ret>>

\* Lines 249-253: the reader is exhausted; open(output_path, "w") creates or
\* truncates the file and writeheader() writes the field names.
OpenOutput ==
    /\ pc = "read"
    /\ NextRecordLine(cleaned_content, reader_pos + 1) = 0
    /\ transactions # <<>>
    /\ output' = <<HeaderLine(Fieldnames)>>
    /\ written' = 0
    /\ pc' = "write"
    /\ UNCHANGED <<categories, content, output_before, header_index,
                   existing_columns, cleaned_content, reader_pos, transactions,
                   generated, raised, call, ret>>

\* Line 254, writerows(), row by row: a row with a key that is no field name
\* raises ValueError, the file is closed with what was written so far, and
\* the handler of lines 262-264 raises the error again.
WriteRow ==
    /\ pc = "write"
    /\ written < Len(transactions)
    /\ LET row == transactions[written + 1] IN
       IF WrongFields(Fieldnames, row) # {}
       THEN /\ raised' = "ValueError"
            /\ pc' = "failed"
            /\ UNCHANGED <<output, written>>
       ELSE /\ output' = Append(output, RowLine(Fieldnames, row))
            /\ written' = written + 1
            /\ UNCHANGED <<pc, raised>>
    /\ UNCHANGED <<categories, content, output_before, header_index,
                   existing_columns, cleaned_content, reader_pos, transactions,
                   generated, call, ret>>

\* Lines 254-258: every row is written, the file is closed, the run returns.
CloseOutput ==
    /\ pc = "write"
    /\ written = Len(transactions)
    /\ pc' = "done"
    /\ UNCHANGED <<categories, content, output_before, output, header_index,
                   existing_columns, cleaned_content, reader_pos, transactions,
                   generated, written, raised, call, ret>>

(***************************************************************************)
(* Spec: runs of process_transactions over input files.                    *)
(***************************************************************************)
RunMappings ==
    {<<[category |-> "Essen", keywords |-> <<<<"a">>>>]>>,
     <<[category |-> "Miete", keywords |-> <<<<"B">>>>],
       [category |-> "Essen", keywords |-> <<<<"a">>>>]>>}

HeaderPlain == EXPECTED_COLUMNS
HeaderEnriched == EXPECTED_COLUMNS \o <<"ID", "Kategorie">>

\* the line of a row with the values f under the header
MakeRow(header, f) ==
    [i \in 1..Len(header) |->
        CASE header[i] = "Beschreibung1" -> f.d1
          [] header[i] = "Beschreibung2" -> f.d2
          [] header[i] = "Belastung" -> f.debit
          [] header[i] = "Gutschrift" -> f.credit
          [] header[i] = "ID" -> f.id
          [] header[i] = "Kategorie" -> f.kat
          [] OTHER -> ""]

RowTexts ==
    {[d1 |-> "Ab", d2 |-> "b", debit |-> "", credit |-> "5000"],
     [d1 |-> "", d2 |-> "b", debit |-> "1'500,50", credit |-> ""],
     [d1 |-> "", d2 |-> "", debit |-> "", credit |-> "5000"],
     [d1 |-> "", d2 |-> "", debit |-> "", credit |-> "nan"],
     [d1 |-> "", d2 |-> "", debit |-> "x", credit |-> "5000"]}

RowMarks ==
    {[id |-> "id1", kat |-> "Alt"], [id |-> "id2", kat |-> ""]}

FullRow(header, t, m) ==
    MakeRow(header, [d1 |-> t.d1, d2 |-> t.d2, debit |-> t.debit,
                     credit |-> t.credit, id |-> m.id, kat |-> m.kat])

SampleText == [d1 |-> "Ab", d2 |-> "b", debit |-> "", credit |-> "5000"]
SampleMark == [id |-> "id1", kat |-> "Essen"]

\* the lines that follow a header: full rows, a row with a value in excess,
\* a row cut short after Beschreibung1, and an empty line
RowsUnder(header) ==
    {FullRow(header, t, m) : t \in RowTexts, m \in RowMarks}
    \cup {FullRow(header, SampleText, SampleMark),
          FullRow(header, SampleText, SampleMark) \o <<"x">>,
          SubSeq(FullRow(header, SampleText, SampleMark), 1, 11),
          <<"">>}

Preambles == {<<>>, <<<<"Kontonummer", "CH00">>>>}

OldOutput == <<<<"old">>>>

RunFiles ==
    UNION {{p \o <<h>> \o rows : rows \in SeqsUpTo(RowsUnder(h), MaxRows)} :
                   p \in Preambles, h \in {HeaderPlain, HeaderEnriched}}
    \cup {p \o <<Prefix(11)>> : p \in Preambles}

Init ==
    /\ pc = "scan"
    /\ categories \in RunMappings
    /\ content \in RunFiles
    /\ output_before \in {NoFile, OldOutput}
    /\ output = output_before
    /\ header_index = -1
    /\ existing_columns = <<>>
    /\ cleaned_content = <<>>
    /\ reader_pos = 0
    /\ transactions = <<>>
    /\ generated = 0
    /\ written = 0
    /\ raised = None
    /\ call = NoCall
    /\ ret = None

Next ==
    \/ CleanCsvContent
    \/ ProcessRow
    \/ NoTransactions
    \/ OpenOutput
    \/ WriteRow
    \/ CloseOutput

Spec == Init /\ [][Next]_vars

(***************************************************************************)
(* The input file as the properties see it.                                *)
(***************************************************************************)
\* the header line of the input, once the scan has found it
InputHeader == content[header_index + 1]

IsRecord(line) == line # <<"">>

\* the records of the cleaned tabular body: the lines after the header that
\* are not empty, in input order
InputRecords == SelectSeq(SubSeq(content, header_index + 2, Len(content)), IsRecord)

\* the value of column name in a line under the header, None when the header
\* has no such column or the line ends before it
ValueIn(line, header, name) ==
    IF \E k \in 1..Len(header) : header[k] = name /\ k <= Len(line)
    THEN line[CHOOSE k \in 1..Len(header) : header[k] = name]
    ELSE None

InputValue(i, name) == ValueIn(InputRecords[i], InputHeader, name)

\* the value of a column in the line written for record i
OutputValue(i, name) == ValueIn(output[i + 1], output[1], name)

\* the combined description of record i
InputDescription(i) ==
    LET parts == FilterTruthy(<<InputValue(i, "Beschreibung1"),
                                InputValue(i, "Beschreibung2"),
                                InputValue(i, "Beschreibung3")>>)
    IN Join([k \in 1..Len(parts) |-> Chars(parts[k])])

InputHasColumn(name) == \E k \in 1..Len(InputHeader) : InputHeader[k] = name

\* C2 as stated: for every record of an input whose header has a category
\* column, when no keyword matches the description the category returned and
\* written is the record's pre-existing category value, for every amount.
C2_ExistingCategoryKept ==
    header_index >= 0 =>
        \A i \in 1..Len(transactions) :
            (InputHasColumn("Kategorie") /\ NoKeywordMatch(InputDescription(i)))
            => /\ Get(transactions[i], "Kategorie", None) = InputValue(i, "Kategorie")
               /\ i <= written => OutputValue(i, "Kategorie") = InputValue(i, "Kategorie")

\* C2 amended: the same for every record whose pre-existing category value
\* is not empty.
C2_NonEmptyExistingCategoryKept ==
    header_index >= 0 =>
        \A i \in 1..Len(transactions) :
            (/\ InputHasColumn("Kategorie")
             /\ InputValue(i, "Kategorie") \notin {None, ""}
             /\ NoKeywordMatch(InputDescription(i)))
            => /\ Get(transactions[i], "Kategorie", None) = InputValue(i, "Kategorie")
               /\ i <= written => OutputValue(i, "Kategorie") = InputValue(i, "Kategorie")

\* C2 witness: a record with the pre-existing category 'Alt', no keyword
\* match and a credit of 5000 is written with 'Alt'.
C2_Witness ==
    /\ pc = "done"
    /\ \E i \in 1..Len(transactions) :
          /\ InputValue(i, "Kategorie") = "Alt"
          /\ InputValue(i, "Gutschrift") = "5000"
          /\ InputValue(i, "Belastung") = ""
          /\ NoKeywordMatch(InputDescription(i))
          /\ OutputValue(i, "Kategorie") = "Alt"

\* C5: for every record of an input that carries an identifier field, the
\* identifier attached to the record and written to the output is the input
\* value.
C5_ExistingIdentifierPreserved ==
    header_index >= 0 =>
        \A i \in 1..Len(transactions) :
            InputValue(i, "ID") # None
            => /\ Get(transactions[i], "ID", None) = InputValue(i, "ID")
               /\ i <= written => OutputValue(i, "ID") = InputValue(i, "ID")

\* C5 witness: a completed run over a prior output wrote two records with
\* the identifiers of the input, although two identifiers were generated.
C5_Witness ==
    /\ pc = "done"
    /\ written = 2
    /\ generated = 2
    /\ InputValue(1, "ID") = "id1"
    /\ InputValue(2, "ID") = "id2"
    /\ OutputValue(1, "ID") = "id1"
    /\ OutputValue(2, "ID") = "id2"

\* the identifiers of the enriched records are pairwise distinct
DistinctIdentifiers ==
    \A i, j \in 1..Len(transactions) :
        Get(transactions[i], "ID", None) = Get(transactions[j], "ID", None) => i = j

\* C6 as stated: in every completed run the identifiers of the enriched
\* records are pairwise distinct, preserved or synthesized.
C6_IdentifiersDistinct == pc = "done" => DistinctIdentifiers

\* C6 amended: in every completed run the identifiers of the enriched
\* records are pairwise distinct when the input has no identifier column (all
\* are synthesized) or the identifier values of its records are pairwise
\* distinct.
C6_IdentifiersDistinctIfInputIs ==
    (/\ pc = "done"
     /\ \/ ~InputHasColumn("ID")
        \/ \A i, j \in 1..Len(InputRecords) :
              InputValue(i, "ID") = InputValue(j, "ID") => i = j)
    => DistinctIdentifiers

\* C6 witness: a completed run synthesized the identifiers of two records.
C6_Witness ==
    /\ pc = "done"
    /\ ~InputHasColumn("ID")
    /\ Len(transactions) = 2
    /\ written = 2
    /\ OutputValue(1, "ID") # OutputValue(2, "ID")

\* C8: a run that ends in a fatal failure propagates the error and leaves
\* the output destination as it was: not created, truncated or partly
\* written.
C8_NoPartialOutputOnFailure ==
    pc = "failed" => raised # None /\ output = output_before

\* the columns of the input that process_transactions does not assign
IsOriginalColumn(name) == name \notin {"ID", "Kategorie"}

\* C9: a completed run has one enriched record per record of the cleaned
\* body, in input order, each written once and only after all records are
\* processed; the output is written if and only if there is a record, and a
\* run without records completes without error and without writing.
C9_OneEnrichedRecordPerRecord ==
    /\ pc \in {"scan", "read"} => output = output_before
    /\ pc = "done" =>
        /\ raised = None
        /\ Len(transactions) = Len(InputRecords)
        /\ \A i \in 1..Len(InputRecords) :
              \A k \in 1..Len(InputHeader) :
                  (IsOriginalColumn(InputHeader[k]) /\ k <= Len(InputRecords[i]))
                  => Get(transactions[i], InputHeader[k], None) = InputRecords[i][k]
        /\ IF InputRecords = <<>>
           THEN output = output_before
           ELSE /\ Len(output) = 1 + Len(InputRecords)
                /\ \A k \in 1..Len(InputHeader) : output[1][k] = InputHeader[k]
                /\ \A i \in 1..Len(InputRecords) :
                      /\ \A k \in 1..Len(InputHeader) :
                            (IsOriginalColumn(InputHeader[k])
                                /\ k <= Len(InputRecords[i]))
                            => output[i + 1][k] = InputRecords[i][k]
                      /\ OutputValue(i, "ID") = Written(Get(transactions[i], "ID", None))
                      /\ OutputValue(i, "Kategorie") = Get(transactions[i], "Kategorie", None)

\* C9 witness: a completed run over a file with a preamble line and two
\* records, the first of them with a value in excess, replaced the old output
\* by a header and two lines.
C9_Witness ==
    /\ pc = "done"
    /\ header_index = 1
    /\ Len(InputRecords) = 2
    /\ Len(InputRecords[1]) > Len(InputHeader)
    /\ output_before = OldOutput
    /\ Len(output) = 3

\* the categories classification can derive under the mapping
DerivableCategories ==
    {categories[i].category : i \in 1..Len(categories)}
    \cup {"Gehalt", "Grosse Ausgaben", "Sonstiges"}

\* C10 as stated: the category of every enriched record is a configured
\* category name, a fallback category or the sentinel, also for records that
\* carried a pre-existing category.
C10_CategoryInConfiguredSet ==
    \A i \in 1..Len(transactions) :
        Get(transactions[i], "Kategorie", None) \in DerivableCategories

\* C10 amended: the category of every enriched record is a configured
\* category name, a fallback category, the sentinel, or the record's own
\* non-empty pre-existing category value.
C10_CategoryInConfiguredSetOrExisting ==
    header_index >= 0 =>
        \A i \in 1..Len(transactions) :
            \/ Get(transactions[i], "Kategorie", None) \in DerivableCategories
            \/ /\ InputHasColumn("Kategorie")
               /\ InputValue(i, "Kategorie") \notin {None, ""}
               /\ Get(transactions[i], "Kategorie", None) = InputValue(i, "Kategorie")

\* C10 witness: a completed run wrote one record with a pre-existing category
\* that is outside the set and one with the sentinel.
C10_Witness ==
    /\ pc = "done"
    /\ written = 2
    /\ \E i, j \in 1..2 :
          /\ OutputValue(i, "Kategorie") = "Alt"
          /\ "Alt" \notin DerivableCategories
          /\ OutputValue(j, "Kategorie") = "Sonstiges"

====
